---- MODULE Spec2Model ----
(***************************************************************************)
(* notify_by_webex_teams (V0.5): one run of the command line tool.         *)
(*                                                                         *)
(* A text is a sequence of characters.  The characters that the code or a  *)
(* JSON reader treats specially are written "LF" (newline), "CR" (carriage *)
(* return), "Q" (double quote) and "BS" (backslash); any other string is a *)
(* run of ordinary characters ("h", "n", "roomId", a room title, an id).   *)
(* The outside world (standard input, the file system, the Webex service)  *)
(* is a nondeterministic choice in Init or in the action that meets it.    *)
(* Every request that reaches client.Do is appended to the log `sent`.     *)
(***************************************************************************)
EXTENDS Integers, Sequences, FiniteSets, TLC

\* ---------------------------------------------------------------- bounds
\* most reads of standard input that end in an error other than io.EOF
MaxReadErrs == 1

\* ---------------------------------------------------------------- inputs
\* what standard input delivers: nothing, one line, two lines, a line ended
\* by CR LF, a line without its newline, two lines separated by CR
StdinInputs ==
    { <<>>,
      <<"a", "LF">>,
      <<"a", "LF", "b", "LF">>,
      <<"a", "CR", "LF">>,
      <<"a">>,
      <<"a", "CR", "b">> }

\* values of -m: plain text, a double quote, a backslash followed by n
MsgTexts == {<<"h">>, <<"Q">>, <<"BS", "n">>}

\* values of -d: none, a message id, an id that makes the URL unparsable
MessageIds == {"", "M1", "%zz"}
\* values of -p: none, a proxy URL, a string url.Parse rejects
ProxyStrings == {"", "http://proxy:8080", "http://[::1"}
\* values of -a: none, a valid JSON card payload (one JSON value)
CardAttachments == {<<>>, <<"CARD">>}
\* values of -f: none, a file that can be opened, a file that cannot
UploadFiles == {"", "logo.png", "missing.png"}
TeamNames == {"A"}
RoomNames == {"B"}
GOOSes == {"linux", "darwin"}

\* ---------------------------------------------------------------- texts
\* a name or identifier as a text
Chars(name) == IF name = "" THEN <<>> ELSE <<name>>

TrimSuffix(s, suffix) ==
    IF Len(s) >= Len(suffix) /\ SubSeq(s, Len(s) - Len(suffix) + 1, Len(s)) = suffix
    THEN SubSeq(s, 1, Len(s) - Len(suffix))
    ELSE s

\* position of the first delim in buf, 0 when there is none
IndexByte(buf, delim) ==
    IF \E k \in 1..Len(buf) : buf[k] = delim
    THEN CHOOSE k \in 1..Len(buf) : buf[k] = delim /\ \A j \in 1..(k - 1) : buf[j] # delim
    ELSE 0

RECURSIVE Flatten(_)
Flatten(ss) == IF ss = <<>> THEN <<>> ELSE Head(ss) \o Flatten(Tail(ss))

\* ---------------------------------------------------------------- JSON
\* encoding/json's string encoding
JSONEscapeChar(c) ==
    CASE c = "Q"  -> <<"BS", "Q">>
      [] c = "BS" -> <<"BS", "BS">>
      [] c = "LF" -> <<"BS", "n">>
      [] c = "CR" -> <<"BS", "r">>
      [] OTHER    -> <<c>>

JSONString(s) == <<"Q">> \o Flatten([i \in 1..Len(s) |-> JSONEscapeChar(s[i])]) \o <<"Q">>

\* json.NewEncoder(b).Encode of a struct of two string fields
JSONEncode2(k1, v1, k2, v2) ==
    <<"{">> \o JSONString(<<k1>>) \o <<":">> \o JSONString(v1) \o <<",">>
            \o JSONString(<<k2>>) \o <<":">> \o JSONString(v2) \o <<"}", "LF">>

\* A JSON reader for objects whose values are strings, opaque values or
\* arrays of those.  Every parser returns [ok, val, next].
JSONFail == [ok |-> FALSE, val |-> <<>>, next |-> 0]

IsWs(c) == c \in {" ", "LF", "CR"}

RECURSIVE SkipWs(_, _)
SkipWs(s, i) == IF i <= Len(s) /\ IsWs(s[i]) THEN SkipWs(s, i + 1) ELSE i

RECURSIVE ScanString(_, _, _)
ScanString(s, i, acc) ==
    IF i > Len(s) THEN JSONFail
    ELSE IF s[i] = "Q" THEN [ok |-> TRUE, val |-> acc, next |-> i + 1]
    ELSE IF s[i] \in {"LF", "CR"} THEN JSONFail
    ELSE IF s[i] = "BS" THEN
        IF i + 1 > Len(s) THEN JSONFail
        ELSE CASE s[i + 1] = "Q"  -> ScanString(s, i + 2, Append(acc, "Q"))
               [] s[i + 1] = "BS" -> ScanString(s, i + 2, Append(acc, "BS"))
               [] s[i + 1] = "n"  -> ScanString(s, i + 2, Append(acc, "LF"))
               [] s[i + 1] = "r"  -> ScanString(s, i + 2, Append(acc, "CR"))
               [] OTHER           -> JSONFail
    ELSE ScanString(s, i + 1, Append(acc, s[i]))

ParseString(s, i) ==
    IF i <= Len(s) /\ s[i] = "Q" THEN ScanString(s, i + 1, <<>>) ELSE JSONFail

\* a value: [kind |-> "string" | "card" | "array", str |-> text, n |-> elements]
RECURSIVE ParseElements(_, _, _)
ParseValue(s, i0) ==
    LET i == SkipWs(s, i0) IN
    IF i > Len(s) THEN JSONFail
    ELSE IF s[i] = "Q" THEN
        LET r == ParseString(s, i) IN
        IF r.ok THEN [ok |-> TRUE, val |-> [kind |-> "string", str |-> r.val, n |-> 0],
                      next |-> r.next]
        ELSE JSONFail
    ELSE IF s[i] = "CARD" THEN
        [ok |-> TRUE, val |-> [kind |-> "card", str |-> <<"CARD">>, n |-> 0], next |-> i + 1]
    ELSE IF s[i] = "[" THEN
        LET j == SkipWs(s, i + 1) IN
        IF j <= Len(s) /\ s[j] = "]"
        THEN [ok |-> TRUE, val |-> [kind |-> "array", str |-> <<>>, n |-> 0], next |-> j + 1]
        ELSE ParseElements(s, j, <<>>)
    ELSE JSONFail

\* the elements of an array after "[": only flat arrays of strings and cards
ParseElements(s, i0, acc) ==
    LET i == SkipWs(s, i0) IN
    IF i > Len(s) \/ s[i] \notin {"Q", "CARD"} THEN JSONFail
    ELSE LET r == IF s[i] = "Q" THEN ParseString(s, i)
                  ELSE [ok |-> TRUE, val |-> <<"CARD">>, next |-> i + 1]
             j == SkipWs(s, r.next)
         IN  IF ~r.ok \/ j > Len(s) THEN JSONFail
             ELSE IF s[j] = "]"
                  THEN [ok |-> TRUE,
                        val |-> [kind |-> "array", str |-> Flatten(Append(acc, r.val)),
                                 n |-> Len(acc) + 1],
                        next |-> j + 1]
             ELSE IF s[j] = "," THEN ParseElements(s, j + 1, Append(acc, r.val))
             ELSE JSONFail

\* the members of an object after "{": a sequence of [key, value]
RECURSIVE ParseMembers(_, _, _)
ParseMembers(s, i0, acc) ==
    LET i == SkipWs(s, i0)
        k == ParseString(s, i)
        c == SkipWs(s, k.next)
    IN  IF ~k.ok \/ c > Len(s) \/ s[c] # ":" THEN JSONFail
        ELSE LET v == ParseValue(s, c + 1)
                 j == SkipWs(s, v.next)
                 members == Append(acc, [key |-> k.val, value |-> v.val])
             IN  IF ~v.ok \/ j > Len(s) THEN JSONFail
                 ELSE IF s[j] = "}" THEN [ok |-> TRUE, val |-> members, next |-> j + 1]
                 ELSE IF s[j] = "," THEN ParseMembers(s, j + 1, members)
                 ELSE JSONFail

\* a whole document that is one object: [ok, val |-> members]
JSONParseObject(s) ==
    LET i == SkipWs(s, 1) IN
    IF i > Len(s) \/ s[i] # "{" THEN JSONFail
    ELSE LET j == SkipWs(s, i + 1) IN
         IF j <= Len(s) /\ s[j] = "}"
         THEN IF SkipWs(s, j + 1) > Len(s)
              THEN [ok |-> TRUE, val |-> <<>>, next |-> Len(s) + 1]
              ELSE JSONFail
         ELSE LET r == ParseMembers(s, j, <<>>) IN
              IF r.ok /\ SkipWs(s, r.next) > Len(s) THEN r ELSE JSONFail

HasMember(members, k) == \E i \in 1..Len(members) : members[i].key = <<k>>

\* the value of the last member named k
Member(members, k) ==
    LET i == CHOOSE i \in 1..Len(members) :
                 /\ members[i].key = <<k>>
                 /\ \A j \in (i + 1)..Len(members) : members[j].key # <<k>>
    IN  members[i].value

\* ---------------------------------------------------------------- service
\* items of a roomsResp: what the code reads of each (id, title, teamId)
Item(id, title, teamId) == [id |-> id, title |-> title, teamId |-> teamId]

\* listings the service may return (the same title may occur twice)
Listings ==
    { <<>>,
      <<Item("r1", "A", "T1")>>,
      <<Item("r2", "B", "T1")>>,
      <<Item("r1", "A", "T1"), Item("r2", "B", "T1")>>,
      <<Item("r2", "B", "T1"), Item("r3", "B", "T2")>>,
      <<Item("r1", "A", "T1"), Item("r4", "A", "T2")>>,
      <<Item("r5", "A", "")>> }

\* what comes back from client.Do and from reading and parsing the body:
\* err is "do" (client.Do failed), "read" (ioutil.ReadAll failed) or "none";
\* json says whether the body is a JSON document of the expected shape
Response(err, status, json, items, id) ==
    [err |-> err, status |-> status, json |-> json, items |-> items, id |-> id]

FailedResponses == {Response("do", 0, FALSE, <<>>, ""), Response("read", 200, FALSE, <<>>, "")}

ListResponses ==
    FailedResponses
    \cup {Response("none", 404, FALSE, <<>>, "")}
    \cup {Response("none", 200, TRUE, l, "") : l \in Listings}

\* a created room or message: the id may be missing from a parsable body
ObjectResponses ==
    FailedResponses
    \cup {Response("none", 502, FALSE, <<>>, "")}
    \cup {Response("none", 200, TRUE, <<>>, "new1"), Response("none", 404, TRUE, <<>>, "")}

DeleteResponses ==
    FailedResponses \cup {Response("none", 204, FALSE, <<>>, ""), Response("none", 404, TRUE, <<>>, "")}

\* ---------------------------------------------------------------- state
VARIABLES
    showVersion, useStdIn, deleteMessageId, cardAttachment, uploadFile,
    proxyString, teamName, roomName, goos,   \* flags and platform, fixed in a run
    flagM,          \* the value given with -m
    stdinData,      \* everything standard input will deliver
    stdinFails,     \* after that, every read returns an error other than
                    \* io.EOF (a directory, a broken device), never io.EOF
    stdin,          \* the part of it not read yet
    readErrs,       \* reads that ended in an error other than io.EOF
    markdownMsg,    \* the global markdownMsg
    teamID, roomID, \* main's locals
    sent,           \* every request handed to client.Do, with its response
    pc,             \* where main is
    exitCode        \* -1 running, 0 os.Exit(0) or return, 1 log.Fatal, 2 panic

config == <<showVersion, useStdIn, deleteMessageId, cardAttachment, uploadFile,
            proxyString, teamName, roomName, goos, flagM, stdinData, stdinFails>>
vars == <<config, stdin, readErrs, markdownMsg, teamID, roomID, sent, pc, exitCode>>

Init ==
    /\ showVersion \in BOOLEAN
    /\ useStdIn \in BOOLEAN
    /\ deleteMessageId \in MessageIds
    /\ cardAttachment \in CardAttachments
    /\ uploadFile \in UploadFiles
    /\ proxyString \in ProxyStrings
    /\ teamName \in TeamNames
    /\ roomName \in RoomNames
    /\ goos \in GOOSes
    /\ flagM \in MsgTexts
    \* standard input is read only with -i
    /\ stdinData \in IF useStdIn THEN StdinInputs ELSE {<<>>}
    /\ stdinFails \in IF useStdIn THEN BOOLEAN ELSE {FALSE}
    /\ stdin = stdinData
    /\ readErrs = 0
    /\ markdownMsg = flagM
    /\ teamID = ""
    /\ roomID = ""
    /\ sent = <<>>
    /\ pc = IF useStdIn THEN "stdin" ELSE "version"
    /\ exitCode = -1

\* ---------------------------------------------------------------- requests
\* a request as client.Do gets it: the URL is url, "/" id when id is not
\* empty, "?" query; a JSON request has a body, a multipart request has
\* form fields (a set of <<name, value>>) and file parts
Request(method, url, id, query, enc, body, fields, files, via) ==
    [method |-> method, url |-> url, id |-> id, query |-> query, enc |-> enc,
     body |-> body, fields |-> fields, files |-> files, via |-> via]

Sent(req, resp) == [req |-> req, resp |-> resp]

ProxyParses(p) == p # "http://[::1"
URLParses(id) == id # "%zz"

\* the transport of the http.Client that is built
Transport(proxy) == IF Len(proxy) > 0 /\ ProxyParses(proxy) THEN "proxy" ELSE "direct"

\* webexTeamsRequest up to client.Do: "error" (returns err), "panic" (req is
\* nil when its header is set) or "do" (the request is handed to client.Do)
webexTeamsRequest_DirectFallback(proxy, id) ==
    IF ~URLParses(id) THEN "panic" ELSE "do"

webexTeamsRequest(proxy, id) ==
    IF Len(proxy) > 0 /\ ~ProxyParses(proxy) THEN "error"
    ELSE IF ~URLParses(id) THEN "panic"
    ELSE "do"

\* ---------------------------------------------------------------- main
Exit(code) == pc' = "exit" /\ exitCode' = code

\* lines 471-473: the line read is trimmed and appended with a newline
appendLine(msg, line) ==
    msg \o TrimSuffix(TrimSuffix(line, <<"CR">>), <<"CR", "LF">>) \o <<"LF">>

lineSeparator(os) == IF os = "darwin" THEN "CR" ELSE "LF"

ReadLine(line, rest, err) ==
    /\ markdownMsg' = appendLine(markdownMsg, line)
    /\ stdin' = rest
    /\ readErrs' = IF err = "other" THEN readErrs + 1 ELSE readErrs
    /\ pc' = IF err = "EOF" THEN "version" ELSE "stdin"
    /\ UNCHANGED <<config, teamID, roomID, sent, exitCode>>

\* what a read that finds no separator can return besides the rest of the
\* input: io.EOF or a passing error, or the lasting error of a failing input
ReadErrors(fails) == IF fails THEN {"other"} ELSE {"EOF", "other"}

\* one turn of the loop over reader.ReadString(lineSeparator); every turn
\* that meets an error other than io.EOF makes the text one newline longer,
\* and the model follows the first MaxReadErrs of them
ReadStdin ==
    /\ pc = "stdin"
    /\ LET k == IndexByte(stdin, lineSeparator(goos)) IN
       IF k > 0
       THEN ReadLine(SubSeq(stdin, 1, k), SubSeq(stdin, k + 1, Len(stdin)), "nil")
       ELSE \E err \in ReadErrors(stdinFails) :
               /\ err = "other" => readErrs < MaxReadErrs
               /\ ReadLine(stdin, <<>>, err)

\* line 485: with -d the run deletes, without it the room is resolved
mainAfterVersion(d) == IF Len(d) > 0 THEN "delete" ELSE "team"

ShowVersion ==
    /\ pc = "version"
    /\ IF showVersion THEN Exit(0)
       ELSE pc' = mainAfterVersion(deleteMessageId) /\ UNCHANGED exitCode
    /\ UNCHANGED <<config, stdin, readErrs, markdownMsg, teamID, roomID, sent>>

\* lines 486-490: where main goes after deleteMessage returned
mainAfterDelete_FallThrough(failed) == IF failed THEN "fatal" ELSE "team"

mainAfterDelete(failed) == IF failed THEN "fatal" ELSE "exit0"

Goto(label) ==
    CASE label = "fatal" -> Exit(1)
      [] label = "exit0" -> Exit(0)
      [] label = "panic" -> Exit(2)
      [] OTHER           -> pc' = label /\ UNCHANGED exitCode

DeleteMessage ==
    /\ pc = "delete"
    /\ LET pre == webexTeamsRequest(proxyString, deleteMessageId)
           req == Request("DELETE", "messages", deleteMessageId, <<>>, "json", <<>>, {}, <<>>,
                          Transport(proxyString))
       IN  CASE pre = "error" -> Goto(mainAfterDelete(TRUE)) /\ UNCHANGED sent
             [] pre = "panic" -> Goto("panic") /\ UNCHANGED sent
             [] OTHER ->
                 \E r \in DeleteResponses :
                    /\ sent' = Append(sent, Sent(req, r))
                    /\ Goto(mainAfterDelete(r.err # "none"))
    /\ UNCHANGED <<config, stdin, readErrs, markdownMsg, teamID, roomID>>

\* lines 331-337: the teamId of the first item titled name
getTeamIDByName_NoError(items, name) ==
    IF \E i \in 1..Len(items) : items[i].title = name
    THEN LET i == CHOOSE i \in 1..Len(items) :
                     /\ items[i].title = name
                     /\ \A j \in 1..(i - 1) : items[j].title # name
         IN  [id |-> items[i].teamId, err |-> FALSE]
    ELSE [id |-> "", err |-> FALSE]

getTeamIDByName(items, name) ==
    IF \E i \in 1..Len(items) : items[i].title = name
    THEN LET i == CHOOSE i \in 1..Len(items) :
                     /\ items[i].title = name
                     /\ \A j \in 1..(i - 1) : items[j].title # name
         IN  [id |-> items[i].teamId, err |-> FALSE]
    ELSE [id |-> "", err |-> TRUE]

\* lines 310-329 and 493-497
GetTeamIDByName ==
    /\ pc = "team"
    /\ LET pre == webexTeamsRequest(proxyString, "")
           req == Request("GET", "rooms", "", <<<<"type", "group">>>>, "json", <<>>, {}, <<>>,
                          Transport(proxyString))
       IN  CASE pre = "error" -> Exit(1) /\ UNCHANGED <<sent, teamID>>
             [] pre = "panic" -> Exit(2) /\ UNCHANGED <<sent, teamID>>
             [] OTHER ->
                 \E r \in ListResponses :
                    /\ sent' = Append(sent, Sent(req, r))
                    /\ IF r.err # "none" \/ ~r.json
                       THEN Exit(1) /\ UNCHANGED teamID
                       ELSE LET t == getTeamIDByName(r.items, teamName) IN
                            IF t.err THEN Exit(1) /\ UNCHANGED teamID
                            ELSE teamID' = t.id /\ pc' = "room" /\ UNCHANGED exitCode
    /\ UNCHANGED <<config, stdin, readErrs, markdownMsg, roomID>>

\* lines 361-365: the id of the first item titled name, if there is one
createRoomAndGetRoom_FirstItem(items, name) ==
    IF \E i \in 1..Len(items) : items[i].title = name
    THEN [found |-> TRUE, id |-> items[1].id]
    ELSE [found |-> FALSE, id |-> ""]

createRoomAndGetRoom_NoCreate(items, name) ==
    IF \E i \in 1..Len(items) : items[i].title = name
    THEN LET i == CHOOSE i \in 1..Len(items) :
                     /\ items[i].title = name
                     /\ \A j \in 1..(i - 1) : items[j].title # name
         IN  [found |-> TRUE, id |-> items[i].id]
    ELSE [found |-> TRUE, id |-> ""]

createRoomAndGetRoom(items, name) ==
    IF \E i \in 1..Len(items) : items[i].title = name
    THEN LET i == CHOOSE i \in 1..Len(items) :
                     /\ items[i].title = name
                     /\ \A j \in 1..(i - 1) : items[j].title # name
         IN  [found |-> TRUE, id |-> items[i].id]
    ELSE [found |-> FALSE, id |-> ""]

\* lines 340-367: the team's rooms are listed and searched
CreateRoomAndGetRoom ==
    /\ pc = "room"
    /\ LET pre == webexTeamsRequest(proxyString, "")
           req == Request("GET", "rooms", "", <<<<"teamId", teamID>>, <<"type", "group">>>>,
                          "json", <<>>, {}, <<>>, Transport(proxyString))
       IN  CASE pre = "error" -> Exit(1) /\ UNCHANGED <<sent, roomID>>
             [] pre = "panic" -> Exit(2) /\ UNCHANGED <<sent, roomID>>
             [] OTHER ->
                 \E r \in ListResponses :
                    /\ sent' = Append(sent, Sent(req, r))
                    /\ IF r.err # "none" \/ ~r.json
                       THEN Exit(1) /\ UNCHANGED roomID
                       ELSE LET f == createRoomAndGetRoom(r.items, roomName) IN
                            IF f.found
                            THEN roomID' = f.id /\ pc' = "dispatch" /\ UNCHANGED exitCode
                            ELSE pc' = "createRoom" /\ UNCHANGED <<roomID, exitCode>>
    /\ UNCHANGED <<config, stdin, readErrs, markdownMsg, teamID>>

\* lines 385-388: the body of the room creation request
createRoomBody_Swapped(roomTitle, team) ==
    JSONEncode2("teamId", Chars(roomTitle), "title", Chars(team))

createRoomBody(roomTitle, team) ==
    JSONEncode2("teamId", Chars(team), "title", Chars(roomTitle))

\* lines 369-373 and 376-406: the room is created and its id returned
CreateRoom ==
    /\ pc = "createRoom"
    /\ LET pre == webexTeamsRequest(proxyString, "")
           req == Request("POST", "rooms", "", <<>>, "json", createRoomBody(roomName, teamID),
                          {}, <<>>, Transport(proxyString))
       IN  CASE pre = "error" -> Exit(1) /\ UNCHANGED <<sent, roomID>>
             [] pre = "panic" -> Exit(2) /\ UNCHANGED <<sent, roomID>>
             [] OTHER ->
                 \E r \in ObjectResponses :
                    /\ sent' = Append(sent, Sent(req, r))
                    /\ IF r.err # "none" \/ ~r.json
                       THEN Exit(1) /\ UNCHANGED roomID
                       ELSE roomID' = r.id /\ pc' = "dispatch" /\ UNCHANGED exitCode
    /\ UNCHANGED <<config, stdin, readErrs, markdownMsg, teamID>>

\* lines 505-524: which message creation main calls
mainDispatch_UploadFirst(attachment, file) ==
    IF Len(file) > 0 THEN "upload"
    ELSE IF Len(attachment) > 0 THEN "card"
    ELSE "plain"

mainDispatch(attachment, file) ==
    IF Len(attachment) > 0 THEN "card"
    ELSE IF Len(file) > 0 THEN "upload"
    ELSE "plain"

\* lines 133-143: the body is written piece by piece
cardBody(msg, room, attachment) ==
    <<"{", "Q", "roomId", "Q", ":", " ", "Q">> \o Chars(room) \o <<"Q", ",", " ">>
    \o <<"Q", "markdown", "Q", ":", " ", "Q">> \o msg \o <<"Q", ",", " ">>
    \o <<"Q", "attachments", "Q", ":", " ", "[">> \o attachment \o <<"]">>
    \o <<"}">>

\* a message creation through webexTeamsRequest (lines 147-166, 422-442)
PostMessage(body) ==
    LET pre == webexTeamsRequest(proxyString, "")
        req == Request("POST", "messages", "", <<>>, "json", body, {}, <<>>,
                       Transport(proxyString))
    IN  CASE pre = "error" -> Exit(1) /\ UNCHANGED sent
          [] pre = "panic" -> Exit(2) /\ UNCHANGED sent
          [] OTHER ->
              \E r \in ObjectResponses :
                 /\ sent' = Append(sent, Sent(req, r))
                 /\ IF r.err # "none" \/ ~r.json THEN Exit(1) ELSE Exit(0)

CreateMessageAndAttachmentsToRoom ==
    /\ pc = "dispatch"
    /\ mainDispatch(cardAttachment, uploadFile) = "card"
    /\ PostMessage(cardBody(markdownMsg, roomID, cardAttachment))
    /\ UNCHANGED <<config, stdin, readErrs, markdownMsg, teamID, roomID>>

\* lines 417-420
plainBody(messageText, room) ==
    JSONEncode2("roomId", Chars(room), "markdown", messageText)

CreateMessageToRoom ==
    /\ pc = "dispatch"
    /\ mainDispatch(cardAttachment, uploadFile) = "plain"
    /\ PostMessage(plainBody(markdownMsg, roomID))
    /\ UNCHANGED <<config, stdin, readErrs, markdownMsg, teamID, roomID>>

\* the file system: os.Open and the file's content
FileOpens(path) == path = "logo.png"
FileContent(path) == IF path = "logo.png" THEN <<"PNG">> ELSE <<>>

\* lines 233-270: the file part, then the fields; a file that cannot be
\* opened is logged and leaves the part empty; err is http.NewRequest's
newfileUploadRequest_EmptyPart(params, fieldname, path) ==
    [err   |-> FALSE,
     fields |-> params,
     files |-> <<[name |-> fieldname, filename |-> path, type |-> "image/png;",
                  data |-> <<>>]>>]

newfileUploadRequest(params, fieldname, path) ==
    [err   |-> FALSE,
     fields |-> params,
     files |-> <<[name |-> fieldname, filename |-> path, type |-> "image/png;",
                  data |-> IF FileOpens(path) THEN FileContent(path) ELSE <<>>]>>]

\* lines 171-175
extraParams(msg, room) ==
    {<<"roomId", Chars(room)>>, <<"markdown", msg>>, <<"roomType", <<"group">>>>}

\* lines 169-223
CreateMessageAndUploadToRoom ==
    /\ pc = "dispatch"
    /\ mainDispatch(cardAttachment, uploadFile) = "upload"
    /\ LET built == newfileUploadRequest(extraParams(markdownMsg, roomID), "files", uploadFile)
           req == Request("POST", "messages", "", <<>>, "multipart", <<>>, built.fields,
                          built.files, Transport(proxyString))
       IN  IF built.err \/ (Len(proxyString) > 0 /\ ~ProxyParses(proxyString))
           THEN Exit(1) /\ UNCHANGED sent
           ELSE \E r \in ObjectResponses :
                   /\ sent' = Append(sent, Sent(req, r))
                   /\ IF r.err # "none" \/ ~r.json THEN Exit(1) ELSE Exit(0)
    /\ UNCHANGED <<config, stdin, readErrs, markdownMsg, teamID, roomID>>

Next ==
    \/ ReadStdin
    \/ ShowVersion
    \/ DeleteMessage
    \/ GetTeamIDByName
    \/ CreateRoomAndGetRoom
    \/ CreateRoom
    \/ CreateMessageAndAttachmentsToRoom
    \/ CreateMessageAndUploadToRoom
    \/ CreateMessageToRoom

Spec == Init /\ [][Next]_vars

\* main is one sequential thread: while a step is possible, one is taken
\* (every HTTP call and every read of standard input returns)
SpecFair == Init /\ [][Next]_vars /\ WF_vars(Next)

\* ---------------------------------------------------------------- reading the log
IsDelete(e) == e.req.method = "DELETE" /\ e.req.url = "messages"
IsTeamListing(e) ==
    e.req.method = "GET" /\ e.req.url = "rooms" /\ e.req.query = <<<<"type", "group">>>>
IsRoomListing(e) ==
    /\ e.req.method = "GET" /\ e.req.url = "rooms"
    /\ Len(e.req.query) = 2 /\ e.req.query[1][1] = "teamId"
IsCreateRoom(e) == e.req.method = "POST" /\ e.req.url = "rooms"
IsCreateMessage(e) == e.req.method = "POST" /\ e.req.url = "messages"
IsUpload(e) == IsCreateMessage(e) /\ e.req.enc = "multipart"
IsCard(e) ==
    /\ IsCreateMessage(e) /\ e.req.enc = "json"
    /\ \E k \in 1..Len(e.req.body) : e.req.body[k] = "attachments"
IsPlain(e) == IsCreateMessage(e) /\ e.req.enc = "json" /\ ~IsCard(e)

\* the response was read and parsed
Answered(e) == e.resp.err = "none" /\ e.resp.json
Titled(e, name) == \E j \in 1..Len(e.resp.items) : e.resp.items[j].title = name

Count(P(_)) == Cardinality({i \in 1..Len(sent) : P(sent[i])})
Exited == pc = "exit"

\* ---------------------------------------------------------------- C1
\* C1 as stated: a run with -d <id>, whatever the other flags, issues
\* exactly one deletion call and no other call.
C1_AsStated ==
    (Len(deleteMessageId) > 0 /\ Exited) =>
        /\ Count(IsDelete) = 1
        /\ Len(sent) = 1

\* C1 amended: a run with -d <id> issues no listing, no room creation and no
\* message creation, and at most one deletion call, which is for that id;
\* it has issued exactly one when it ends with status 0 without -V, and
\* none when it ends with -V.
C1_DeleteOnly ==
    Len(deleteMessageId) > 0 =>
        /\ \A i \in 1..Len(sent) : IsDelete(sent[i]) /\ sent[i].req.id = deleteMessageId
        /\ Len(sent) <= 1
        /\ (Exited /\ exitCode = 0 /\ ~showVersion) => Len(sent) = 1
        /\ (Exited /\ showVersion) => Len(sent) = 0

C1_Witness ==
    /\ Len(deleteMessageId) > 0 /\ ~showVersion /\ useStdIn
    /\ Len(cardAttachment) > 0 /\ Len(uploadFile) > 0 /\ Len(flagM) > 0
    /\ Exited /\ exitCode = 0
    /\ Len(sent) = 1 /\ IsDelete(sent[1])

\* ---------------------------------------------------------------- C2
\* C2: when the group-room listing has no item titled like the team, the
\* run ends at once with a non-zero status: the listing is the last call,
\* so no team-scoped listing, room creation or message creation follows.
C2_TeamNotFound ==
    \A i \in 1..Len(sent) :
        (IsTeamListing(sent[i]) /\ Answered(sent[i]) /\ ~Titled(sent[i], teamName)) =>
            /\ i = Len(sent)
            /\ Exited /\ exitCode = 1
            /\ Count(IsRoomListing) = 0 /\ Count(IsCreateRoom) = 0
            /\ Count(IsCreateMessage) = 0

C2_Witness ==
    /\ Len(sent) = 1 /\ IsTeamListing(sent[1]) /\ Answered(sent[1])
    /\ Len(sent[1].resp.items) > 0 /\ ~Titled(sent[1], teamName)
    /\ Exited /\ exitCode = 1

\* ---------------------------------------------------------------- C3
\* C3: when the team-scoped listing has an item titled like the room, the
\* room id is the id of a listed item with that title and no room is created.
C3_RoomFound ==
    \A i \in 1..Len(sent) :
        (IsRoomListing(sent[i]) /\ Answered(sent[i]) /\ Titled(sent[i], roomName)) =>
            /\ \E j \in 1..Len(sent[i].resp.items) :
                  /\ sent[i].resp.items[j].title = roomName
                  /\ sent[i].resp.items[j].id = roomID
            /\ Count(IsCreateRoom) = 0
            /\ pc # "createRoom"

C3_Witness ==
    /\ Len(sent) = 3 /\ IsRoomListing(sent[2]) /\ Answered(sent[2])
    /\ Len(sent[2].resp.items) = 2
    /\ sent[2].resp.items[1].title # roomName
    /\ sent[2].resp.items[2].title = roomName
    /\ sent[2].resp.items[2].id = roomID
    /\ IsCreateMessage(sent[3])

\* ---------------------------------------------------------------- C4
\* the room a message creation request names, when the request says so
DestKnown(e) ==
    IF e.req.enc = "multipart" THEN \E f \in e.req.fields : f[1] = "roomId"
    ELSE LET p == JSONParseObject(e.req.body) IN
         p.ok /\ HasMember(p.val, "roomId") /\ Member(p.val, "roomId").kind = "string"
Dest(e) ==
    IF e.req.enc = "multipart"
    THEN (CHOOSE f \in e.req.fields : f[1] = "roomId")[2]
    ELSE Member(JSONParseObject(e.req.body).val, "roomId").str

\* C4: when the team-scoped listing has no item titled like the room, the
\* next call is the one room creation of the run; its body is a JSON object
\* with the room name as title and the resolved team id as teamId; the room
\* id is the id of its response, and the message goes to that room.
C4_RoomCreated ==
    \A i \in 1..Len(sent) :
        (IsRoomListing(sent[i]) /\ Answered(sent[i]) /\ ~Titled(sent[i], roomName)) =>
            /\ Count(IsCreateRoom) <= 1
            /\ pc = "createRoom" => i = Len(sent)
            /\ pc # "createRoom" =>
                /\ Len(sent) > i /\ IsCreateRoom(sent[i + 1])
                /\ LET p == JSONParseObject(sent[i + 1].req.body) IN
                      /\ p.ok /\ Len(p.val) = 2
                      /\ HasMember(p.val, "title") /\ HasMember(p.val, "teamId")
                      /\ Member(p.val, "title") = [kind |-> "string", str |-> Chars(roomName), n |-> 0]
                      /\ Member(p.val, "teamId") = [kind |-> "string", str |-> Chars(teamID), n |-> 0]
                      /\ sent[i].req.query[1][2] = teamID
                /\ Answered(sent[i + 1]) =>
                      /\ roomID = sent[i + 1].resp.id
                      /\ \A k \in 1..Len(sent) :
                            (IsCreateMessage(sent[k]) /\ DestKnown(sent[k])) =>
                                Dest(sent[k]) = Chars(sent[i + 1].resp.id)

C4_Witness ==
    /\ Len(sent) = 4 /\ IsRoomListing(sent[2]) /\ ~Titled(sent[2], roomName)
    /\ Len(sent[2].resp.items) > 0
    /\ IsCreateRoom(sent[3]) /\ sent[3].resp.id = "new1" /\ roomID = "new1"
    /\ IsPlain(sent[4]) /\ DestKnown(sent[4]) /\ Dest(sent[4]) = <<"new1">>
    /\ Exited /\ exitCode = 0

\* ---------------------------------------------------------------- C5
IsOperation(e) == IsDelete(e) \/ IsCreateMessage(e)
Kind(e) ==
    IF IsDelete(e) THEN "delete"
    ELSE IF IsCard(e) THEN "card"
    ELSE IF IsUpload(e) THEN "upload"
    ELSE "plain"
\* the operation the flags ask for: -d before -a before -f before plain
Selected ==
    IF deleteMessageId # "" THEN "delete"
    ELSE IF cardAttachment # <<>> THEN "card"
    ELSE IF uploadFile # "" THEN "upload"
    ELSE "plain"
\* the room was found or created
Resolved ==
    \E i \in 1..Len(sent) :
        \/ IsRoomListing(sent[i]) /\ Answered(sent[i]) /\ Titled(sent[i], roomName)
        \/ IsCreateRoom(sent[i]) /\ Answered(sent[i])

\* C5: the only operation that issues a call is the one of highest priority
\* among delete, card, upload and plain; main stands before deleteMessage
\* only with -d and before a message creation only without -d, with no
\* operation call issued yet; at most one such call is issued, and exactly
\* one in a run that ended after the room was resolved or that ended with
\* status 0 without -V.
C5_OneOperation ==
    /\ \A i \in 1..Len(sent) : IsOperation(sent[i]) => Kind(sent[i]) = Selected
    /\ Count(IsOperation) <= 1
    /\ pc = "delete" => (Selected = "delete" /\ Count(IsOperation) = 0)
    /\ pc \in {"team", "room", "createRoom", "dispatch"} =>
          (Selected # "delete" /\ Count(IsOperation) = 0)
    /\ (Exited /\ (Resolved \/ (exitCode = 0 /\ ~showVersion))) => Count(IsOperation) = 1

C5_Witness ==
    /\ deleteMessageId = "" /\ cardAttachment # <<>> /\ uploadFile # ""
    /\ Exited /\ exitCode = 0
    /\ Count(IsOperation) = 1 /\ Count(IsCard) = 1

\* ---------------------------------------------------------------- C6
\* C6: a message creation is the last call of the run and comes after the
\* team listing that matched the team name and the team-scoped room listing,
\* directly when that listing has the room, and after the room creation
\* when it has not; a run without -d issues no deletion.
C6_ResolveBeforeMessage ==
    /\ deleteMessageId = "" => Count(IsDelete) = 0
    /\ \A i \in 1..Len(sent) :
          IsCreateMessage(sent[i]) =>
              /\ i = Len(sent) /\ i \in {3, 4}
              /\ IsTeamListing(sent[1]) /\ Answered(sent[1]) /\ Titled(sent[1], teamName)
              /\ IsRoomListing(sent[2]) /\ Answered(sent[2])
              /\ i = 3 => Titled(sent[2], roomName)
              /\ i = 4 => /\ ~Titled(sent[2], roomName)
                          /\ IsCreateRoom(sent[3]) /\ Answered(sent[3])

C6_Witness ==
    /\ Len(sent) = 4 /\ IsUpload(sent[4]) /\ IsCreateRoom(sent[3])
    /\ IsRoomListing(sent[2]) /\ IsTeamListing(sent[1])

\* ---------------------------------------------------------------- C7
NewlineTerminated(s) == Len(s) > 0 /\ s[Len(s)] = "LF" /\ \A k \in 1..Len(s) : s[k] # "CR"

\* C7 as stated: with -i, once standard input (newline-terminated lines,
\* read without error) is read, the markdown text is exactly that input,
\* whatever -m is.
C7_AsStated ==
    (useStdIn /\ pc # "stdin" /\ readErrs = 0 /\ goos = "linux"
        /\ NewlineTerminated(stdinData)) =>
        markdownMsg = stdinData

\* ---------------------------------------------------------------- C8
\* C8 as stated: the body of a card message is a JSON object whose roomId
\* is the room id, whose markdown is the markdown text and whose
\* attachments is an array of one element, the card.
C8_AsStated ==
    \A i \in 1..Len(sent) :
        IsCard(sent[i]) =>
            LET p == JSONParseObject(sent[i].req.body) IN
            /\ p.ok
            /\ HasMember(p.val, "roomId") /\ HasMember(p.val, "markdown")
            /\ HasMember(p.val, "attachments")
            /\ Member(p.val, "roomId") = [kind |-> "string", str |-> Chars(roomID), n |-> 0]
            /\ Member(p.val, "markdown") = [kind |-> "string", str |-> markdownMsg, n |-> 0]
            /\ Member(p.val, "attachments") = [kind |-> "array", str |-> cardAttachment, n |-> 1]

\* ---------------------------------------------------------------- C9
\* C9 as stated: on the upload path a file that cannot be opened ends the
\* run with a non-zero status and without a message creation request.
C9_AsStated ==
    (Selected = "upload" /\ ~showVersion /\ ~FileOpens(uploadFile)) =>
        /\ Count(IsCreateMessage) = 0
        /\ Exited => exitCode # 0

\* ---------------------------------------------------------------- C10
\* C10: with a -p string that is no URL no request is ever sent, and the run
\* ends with status 1 unless -V ended it first; with any -p string no
\* request goes over a direct connection.
C10_BadProxy ==
    /\ (Len(proxyString) > 0 /\ ~ProxyParses(proxyString)) =>
          /\ sent = <<>>
          /\ Exited => (exitCode = 1 \/ (showVersion /\ exitCode = 0))
          /\ pc \in {"stdin", "version", "delete", "team", "exit"}
    /\ Len(proxyString) > 0 => \A i \in 1..Len(sent) : sent[i].req.via = "proxy"

C10_Witness ==
    /\ Len(proxyString) > 0 /\ ~ProxyParses(proxyString)
    /\ ~showVersion /\ deleteMessageId = "" /\ uploadFile # ""
    /\ Exited /\ exitCode = 1 /\ sent = <<>>

\* ---------------------------------------------------------------- C11
\* the call was answered with a status outside 200..299
NonSuccess(e) == e.resp.err = "none" /\ ~(e.resp.status >= 200 /\ e.resp.status <= 299)

\* C11 as stated: a run whose message creation or deletion was answered
\* with a non-2xx status ends with a non-zero exit status.
C11_AsStated ==
    \A i \in 1..Len(sent) :
        (IsOperation(sent[i]) /\ NonSuccess(sent[i]) /\ Exited) => exitCode # 0

\* ---------------------------------------------------------------- C12
\* C12: with -f naming a file that can be opened, and neither -a nor -d,
\* every message creation of the run is multipart with no JSON body, has
\* exactly the fields roomId (the room id), markdown (the text) and
\* roomType = group, and one file part holding the file's content; there is
\* at most one, and exactly one in a run that ends with status 0 without -V.
C12_MultipartUpload ==
    (Selected = "upload" /\ FileOpens(uploadFile)) =>
        /\ Count(IsCreateMessage) <= 1
        /\ (Exited /\ exitCode = 0 /\ ~showVersion) => Count(IsCreateMessage) = 1
        /\ \A i \in 1..Len(sent) :
              IsCreateMessage(sent[i]) =>
                  /\ sent[i].req.enc = "multipart"
                  /\ sent[i].req.body = <<>>
                  /\ sent[i].req.fields = { <<"roomId", Chars(roomID)>>,
                                            <<"markdown", markdownMsg>>,
                                            <<"roomType", <<"group">>>> }
                  /\ Len(sent[i].req.files) = 1
                  /\ sent[i].req.files[1].name = "files"
                  /\ sent[i].req.files[1].filename = uploadFile
                  /\ sent[i].req.files[1].data = FileContent(uploadFile)
                  /\ Len(sent[i].req.files[1].data) > 0

C12_Witness ==
    /\ Selected = "upload" /\ FileOpens(uploadFile) /\ useStdIn
    /\ Exited /\ exitCode = 0
    /\ Len(sent) = 4 /\ IsUpload(sent[4])
    /\ sent[4].req.files[1].data = <<"PNG">>

\* ---------------------------------------------------------------- C14
\* C14 as stated: when the request cannot be constructed (the -d id makes
\* the URL unparsable) the run ends through log.Fatal, with status 1, and
\* not through a crash.
C14_AsStated ==
    (Len(deleteMessageId) > 0 /\ ~URLParses(deleteMessageId) /\ ~showVersion /\ Exited) =>
        exitCode = 1

\* ---------------------------------------------------------------- C15
\* C15 as stated: no message creation is issued while the room id is empty,
\* and none at all in a run whose team-scoped listing was made with an
\* empty teamId.
C15_AsStated ==
    /\ \A i \in 1..Len(sent) : IsCreateMessage(sent[i]) => roomID # ""
    /\ (\E i \in 1..Len(sent) : IsRoomListing(sent[i]) /\ sent[i].req.query[1][2] = "") =>
          Count(IsCreateMessage) = 0

\* ---------------------------------------------------------------- C13
\* C13 as stated: every run reaches process exit.  (In the run TLC shows,
\* standard input fails for good: every turn of the loop meets the error
\* again and reads again; the model follows MaxReadErrs such turns, and the
\* last state stands for all the later ones, which differ only in the
\* length of the text.)
C13_AsStated == <>Exited

\* C13, the part about the loop, on a finite run: a turn whose read met an
\* error other than io.EOF leaves the loop.  The code does not: violated.
C13_LoopEndsOnError ==
    [][(pc = "stdin" /\ readErrs' > readErrs) => pc' # "stdin"]_vars
====
